---- MODULE Spec2Model ----
(***************************************************************************)
(* TaskList (src/components/task-list.tsx) and TaskComments                *)
(* (src/components/task-comments.tsx) as one state machine.                *)
(*                                                                         *)
(* JavaScript values are tagged records, so that undefined, null, numbers  *)
(* and strings stay distinct and truthiness is computed as the language    *)
(* computes it.  A string is a sequence of one-character strings.          *)
(***************************************************************************)
EXTENDS Integers, Sequences, FiniteSets, TLC

VARIABLES
    initialTasks,     \* the initialTasks prop: the confirmed task collection
    serverTasks,      \* the backing store behind the server actions
    optimisticQueue,  \* optimistic updates React holds for useOptimistic
    calls,            \* the calls of server actions in flight, in issue order
    isPending,        \* TaskList's useTransition flag
    openDialogs,      \* Record<number, boolean>
    openDropdowns,    \* Record<number, boolean>
    currentUser,      \* { id, name, email } | null
    userLoad,         \* where loadCurrentUser() stands
    newComment,       \* per mounted TaskComments: the textarea's text
    commentPending,   \* per mounted TaskComments: its useTransition flag
    onFinish,         \* CreateTaskForm: the onFinish prop
    title,            \* CreateTaskForm: the Title input
    priority,         \* CreateTaskForm: the Priority select
    formState,        \* CreateTaskForm: useActionState's state
    formPending,      \* CreateTaskForm: useFormStatus's pending
    onFinishCalls     \* how many times the onFinish prop was called

\* CreateTaskForm's part of the state
formVars == <<onFinish, title, priority, formState, formPending, onFinishCalls>>

vars == <<initialTasks, serverTasks, optimisticQueue, calls, isPending,
          openDialogs, openDropdowns, currentUser, userLoad, newComment,
          commentPending, formVars>>

(***************************************************************************)
(* Bounds of the model.                                                    *)
(***************************************************************************)
MaxTasks == 2
MaxUserId == 2
MaxCalls == 2
MaxQueue == 2
MaxCommentLen == 1
MaxComments == 2
MaxNameLen == 3
MaxDataId == 4
MaxFinish == 2
MaxInputLen == 3

(***************************************************************************)
(* JavaScript values.                                                      *)
(***************************************************************************)
Undefined == [t |-> "undefined"]
Null == [t |-> "null"]
Num(n) == [t |-> "num", v |-> n]
Str(s) == [t |-> "str", v |-> s]
Obj(o) == [t |-> "obj", v |-> o]

\* ToBoolean: undefined, null, false, 0 and "" are falsy
Truthy(x) ==
    CASE x.t = "undefined" -> FALSE
      [] x.t = "null" -> FALSE
      [] x.t = "bool" -> x.v
      [] x.t = "num" -> x.v # 0
      [] x.t = "str" -> x.v # <<>>
      [] OTHER -> TRUE

\* a || b
OrElse(a, b) == IF Truthy(a) THEN a ELSE b

\* o?.name
OptName(o) == IF o.t = "obj" THEN o.v.name ELSE Undefined

\* o?.id
OptId(o) == IF o.t = "obj" THEN Num(o.v.id) ELSE Undefined

(***************************************************************************)
(* Strings.                                                                *)
(***************************************************************************)
LowerCase == <<"a","b","c","d","e","f","g","h","i","j","k","l","m",
               "n","o","p","q","r","s","t","u","v","w","x","y","z">>
UpperCase == <<"A","B","C","D","E","F","G","H","I","J","K","L","M",
               "N","O","P","Q","R","S","T","U","V","W","X","Y","Z">>

\* the characters String.prototype.trim removes, among those of the model
WhiteSpace == {" ", "\t", "\n"}

UpperChar(c) ==
    IF \E i \in DOMAIN LowerCase : LowerCase[i] = c
    THEN UpperCase[CHOOSE i \in DOMAIN LowerCase : LowerCase[i] = c]
    ELSE c

\* s.toUpperCase()
toUpperCase(s) == [i \in DOMAIN s |-> UpperChar(s[i])]

RECURSIVE TrimStart(_)
TrimStart(s) ==
    IF s # <<>> /\ Head(s) \in WhiteSpace THEN TrimStart(Tail(s)) ELSE s

RECURSIVE TrimEnd(_)
TrimEnd(s) ==
    IF s # <<>> /\ s[Len(s)] \in WhiteSpace
    THEN TrimEnd(SubSeq(s, 1, Len(s) - 1))
    ELSE s

\* s.trim()
trim(s) == TrimEnd(TrimStart(s))

\* s.split(sep) for a one-character separator: the pieces between the
\* separators, empty pieces kept
RECURSIVE SplitFrom(_, _, _)
SplitFrom(s, sep, cur) ==
    IF s = <<>> THEN <<cur>>
    ELSE IF Head(s) = sep THEN <<cur>> \o SplitFrom(Tail(s), sep, <<>>)
    ELSE SplitFrom(Tail(s), sep, Append(cur, Head(s)))

split(s, sep) == SplitFrom(s, sep, <<>>)

\* tokens.map((n) => n[0]).join(""): n[0] of an empty piece is undefined,
\* which join writes as the empty string
RECURSIVE JoinFirsts(_)
JoinFirsts(tokens) ==
    IF tokens = <<>> THEN <<>>
    ELSE (IF Head(tokens) = <<>> THEN <<>> ELSE <<Head(Head(tokens))>>)
         \o JoinFirsts(Tail(tokens))

Placeholder == <<"?", "?">>

\* getInitials with the result left in the name's own case
getInitialsNoUpper(name) ==
    IF ~Truthy(name) THEN Placeholder
    ELSE JoinFirsts(split(name.v, " "))

\* getInitials with nothing written for a missing name
getInitialsNoPlaceholder(name) ==
    IF ~Truthy(name) THEN <<>>
    ELSE toUpperCase(JoinFirsts(split(name.v, " ")))

\* TaskList's getInitials(name: string | null)
getInitials(name) ==
    IF ~Truthy(name) THEN Placeholder
    ELSE toUpperCase(JoinFirsts(split(name.v, " ")))

\* TaskComments' getInitials(name: string | null)
commentGetInitials(name) ==
    IF ~Truthy(name) THEN Placeholder
    ELSE toUpperCase(JoinFirsts(split(name.v, " ")))

(***************************************************************************)
(* Data.                                                                   *)
(***************************************************************************)
Bool(b) == [t |-> "bool", v |-> b]
Arr(a) == [t |-> "arr", v |-> a]

TaskIds == 1 .. MaxTasks
UserIds == 1 .. MaxUserId
Statuses == {"todo", "in_progress", "done"}

JaneSmith == <<"J", "a", "n", "e", " ", "S", "m", "i", "t", "h">>

UserName(i) == IF i = 1 THEN Str(JaneSmith) ELSE Null

User(i) == [name |-> UserName(i), id |-> i]

\* the users getCurrentUser() resolves to
CurrentUsers == {Obj(User(u)) : u \in UserIds}

Comment(cid, uid) ==
    [id |-> cid, authorId |-> uid, author |-> [id |-> uid, name |-> UserName(uid)]]

\* the tasks a page starts from: task 1 is assigned and has one comment,
\* written by another user than its creator; the others are bare
SeedTask(i, status) ==
    [id |-> i,
     status |-> status,
     priority |-> "medium",
     assignee |-> IF i = 1 THEN Obj([name |-> UserName(1)]) ELSE Null,
     creatorId |-> Num(IF i \in UserIds THEN i ELSE 1),
     comments |-> IF i = 1 THEN Arr(<<Comment(1, MaxUserId)>>) ELSE Undefined]

(***************************************************************************)
(* TaskList: the optimistic collection.                                    *)
(***************************************************************************)
\* the reducer with a toggle that marks the task done whatever it was
reducerMarksDone(state, action, task) ==
    IF action = "delete"
    THEN SelectSeq(state, LAMBDA t : t.id # task.id)
    ELSE IF action = "toggle"
    THEN [i \in DOMAIN state |->
            IF state[i].id = task.id
            THEN [state[i] EXCEPT !.status = "done"]
            ELSE state[i]]
    ELSE state

\* the reducer with a delete that filters nothing out
reducerKeepsDeleted(state, action, task) ==
    IF action = "delete"
    THEN SelectSeq(state, LAMBDA t : TRUE)
    ELSE IF action = "toggle"
    THEN [i \in DOMAIN state |->
            IF state[i].id = task.id
            THEN [state[i] EXCEPT
                    !.status = IF state[i].status = "done" THEN "todo" ELSE "done"]
            ELSE state[i]]
    ELSE state

\* the reducer with a toggle that rebuilds the task without its comments
reducerDropsComments(state, action, task) ==
    IF action = "delete"
    THEN SelectSeq(state, LAMBDA t : t.id # task.id)
    ELSE IF action = "toggle"
    THEN [i \in DOMAIN state |->
            IF state[i].id = task.id
            THEN [state[i] EXCEPT
                    !.status = IF state[i].status = "done" THEN "todo" ELSE "done",
                    !.comments = Undefined]
            ELSE state[i]]
    ELSE state

\* the reducer with a toggle that flips every task
reducerTogglesAll(state, action, task) ==
    IF action = "delete"
    THEN SelectSeq(state, LAMBDA t : t.id # task.id)
    ELSE IF action = "toggle"
    THEN [i \in DOMAIN state |->
            [state[i] EXCEPT
                !.status = IF state[i].status = "done" THEN "todo" ELSE "done"]]
    ELSE state

\* the reducer with a toggle that steps through the three statuses
reducerCycles(state, action, task) ==
    IF action = "delete"
    THEN SelectSeq(state, LAMBDA t : t.id # task.id)
    ELSE IF action = "toggle"
    THEN [i \in DOMAIN state |->
            IF state[i].id = task.id
            THEN [state[i] EXCEPT
                    !.status = IF state[i].status = "done" THEN "todo"
                               ELSE IF state[i].status = "todo" THEN "in_progress"
                               ELSE "done"]
            ELSE state[i]]
    ELSE state

\* the reducer with a toggle that moves the task to the end
reducerMovesToggled(state, action, task) ==
    IF action = "delete"
    THEN SelectSeq(state, LAMBDA t : t.id # task.id)
    ELSE IF action = "toggle"
    THEN SelectSeq(state, LAMBDA t : t.id # task.id)
         \o [i \in DOMAIN SelectSeq(state, LAMBDA t : t.id = task.id) |->
                [SelectSeq(state, LAMBDA t : t.id = task.id)[i] EXCEPT
                    !.status = IF @ = "done" THEN "todo" ELSE "done"]]
    ELSE state

\* the reducer with a delete that takes out the task at the position of
\* the id
reducerDeletesByIndex(state, action, task) ==
    IF action = "delete"
    THEN [i \in 1 .. (Len(state) - (IF task.id \in DOMAIN state THEN 1 ELSE 0)) |->
            IF i < task.id THEN state[i] ELSE state[i + 1]]
    ELSE IF action = "toggle"
    THEN [i \in DOMAIN state |->
            IF state[i].id = task.id
            THEN [state[i] EXCEPT
                    !.status = IF state[i].status = "done" THEN "todo" ELSE "done"]
            ELSE state[i]]
    ELSE state

\* the reducer given to useOptimistic
reducer(state, action, task) ==
    IF action = "delete"
    THEN SelectSeq(state, LAMBDA t : t.id # task.id)
    ELSE IF action = "toggle"
    THEN [i \in DOMAIN state |->
            IF state[i].id = task.id
            THEN [state[i] EXCEPT
                    !.status = IF state[i].status = "done" THEN "todo" ELSE "done"]
            ELSE state[i]]
    ELSE state

\* useOptimistic: the passthrough value with the queued updates applied in
\* the order they were dispatched
RECURSIVE ApplyUpdates(_, _)
ApplyUpdates(state, queue) ==
    IF queue = <<>> THEN state
    ELSE ApplyUpdates(reducer(state, Head(queue).action, Head(queue).task),
                      Tail(queue))

optimisticTasks == ApplyUpdates(initialTasks, optimisticQueue)

Ids(tasks) == {tasks[i].id : i \in DOMAIN tasks}

TaskOf(tasks, id) == tasks[CHOOSE i \in DOMAIN tasks : tasks[i].id = id]

\* the fallback text of a row's avatar
AvatarFallback(task) == getInitials(OrElse(OptName(task.assignee), Null))

\* the comment count badge of a row: absent unless the task has comments
CountBadge(task) ==
    IF Truthy(task.comments) /\ Len(task.comments.v) > 0
    THEN Num(Len(task.comments.v))
    ELSE Undefined

(***************************************************************************)
(* TaskComments: props and what it renders.                                *)
(***************************************************************************)
\* the props TaskList gives the TaskComments of a row
CommentsProps(task, user) ==
    [taskId |-> task.id,
     comments |-> OrElse(task.comments, Arr(<<>>)).v,
     currentUserId |-> OptId(user),
     taskCreatorId |-> task.creatorId]

\* a && b
AndThen(a, b) == IF Truthy(a) THEN b ELSE a

\* canDeleteComment without the test of currentUserId
canDeleteCommentUnguarded(props, comment) ==
    Bool(Num(comment.authorId) = props.currentUserId
         \/ props.taskCreatorId = props.currentUserId)

canDeleteComment(props, comment) ==
    AndThen(props.currentUserId,
            Bool(Num(comment.authorId) = props.currentUserId
                 \/ props.taskCreatorId = props.currentUserId))

\* "Comments (n)"
CommentsHeader(props) == Len(props.comments)

\* the rows of the comments list, a comment leaving it as soon as a call of
\* deleteComment is made for it
CommentRowsWithoutDeleted(props) ==
    SelectSeq(props.comments,
              LAMBDA k : \A i \in DOMAIN calls :
                            ~(calls[i].fn = "deleteComment" /\ calls[i].id = k.id))

\* the rows of the comments list
CommentRows(props) == props.comments

\* the form rendered whoever looks at the page
AddFormAlways(props) == TRUE

\* {currentUserId && (<form>)}
AddFormRendered(props) == Truthy(props.currentUserId)

\* the fallback text of a comment's avatar
CommentAvatar(comment) == commentGetInitials(comment.author.name)

\* the delete buttons rendered: one per comment canDeleteComment accepts
DeleteButtons(props) ==
    {props.comments[i].id : i \in
        {j \in DOMAIN props.comments : Truthy(canDeleteComment(props, props.comments[j]))}}

\* the Dialog of a row is rendered open, with its TaskComments inside
MountedIn(tasks, dialogs, id) == id \in Ids(tasks) /\ dialogs[id] = Bool(TRUE)

Mounted(id) == MountedIn(optimisticTasks, openDialogs, id)

PropsOf(id) == CommentsProps(TaskOf(optimisticTasks, id), currentUser)

\* the Add Comment button disabled for a blank text only
AddDisabledWhenBlank(id) == ~Truthy(Str(trim(newComment[id])))

\* disabled={!newComment.trim() || isPending}
AddDisabled(id) == ~Truthy(Str(trim(newComment[id]))) \/ commentPending[id]

\* {isPending ? "Adding..." : "Add Comment"}
AddLabel(id) == IF commentPending[id] THEN "Adding..." ELSE "Add Comment"

\* the delete buttons with no disabled attribute
DeleteNeverDisabled(id) == FALSE

\* the delete buttons: disabled={isPending}
DeleteDisabled(id) == commentPending[id]

\* the Textarea: disabled={isPending}
TextareaDisabled(id) == commentPending[id]

\* a TaskComments that leaves the tree loses its state, and what its
\* transitions still await no longer reaches it
KeepMounted(f, tasks, dialogs, initial) ==
    [id \in TaskIds |-> IF MountedIn(tasks, dialogs, id) THEN f[id] ELSE initial]

Orphan(cs, tasks, dialogs) ==
    [i \in DOMAIN cs |->
        IF cs[i].view \in TaskIds /\ ~MountedIn(tasks, dialogs, cs[i].view)
        THEN [cs[i] EXCEPT !.live = FALSE]
        ELSE cs[i]]

(***************************************************************************)
(* The server actions.  A call is in flight until it settles, with "ok" or *)
(* "failed": the promise resolves either way, and no caller looks at more  *)
(* than addComment's success flag.                                         *)
(***************************************************************************)
Call(fn, id, arg, view) ==
    [fn |-> fn, id |-> id, arg |-> arg, view |-> view, live |-> TRUE]

Without(cs, i) == SubSeq(cs, 1, i - 1) \o SubSeq(cs, i + 1, Len(cs))

\* transitions that are never seen to finish
ScopeNeverEnds(cs) == FALSE

\* React entangles the async transitions that run at the same time: their
\* pending flags and optimistic updates are dropped together, once none of
\* them is still awaited
ScopeEnded(cs) == cs = <<>>

AllComments(tasks) ==
    UNION {{tasks[i].comments.v[j] : j \in DOMAIN tasks[i].comments.v} :
           i \in {k \in DOMAIN tasks : tasks[k].comments.t = "arr"}}

\* the store numbers comments upwards: the next id is above every id still
\* known to the store, to the page or to a call in flight
NextCommentId ==
    LET used == {c.id : c \in AllComments(serverTasks) \cup AllComments(initialTasks)}
                \cup {calls[i].id : i \in {j \in DOMAIN calls : calls[j].fn = "deleteComment"}}
    IN  IF used = {} THEN 1 ELSE 1 + CHOOSE m \in used : \A n \in used : n <= m

CommentsOf(task) == OrElse(task.comments, Arr(<<>>)).v

\* whether the store can carry the call out
CanSucceed(c) ==
    CASE c.fn = "updateTaskStatus" -> c.id \in Ids(serverTasks)
      [] c.fn = "deleteTask" -> c.id \in Ids(serverTasks)
      [] c.fn = "addComment" ->
            /\ c.id \in Ids(serverTasks)
            /\ Truthy(currentUser)
            /\ NextCommentId <= MaxComments
      [] c.fn = "deleteComment" -> c.id \in {k.id : k \in AllComments(serverTasks)}

\* the store after the call was carried out
Carried(c) ==
    CASE c.fn = "updateTaskStatus" ->
            [i \in DOMAIN serverTasks |->
                IF serverTasks[i].id = c.id
                THEN [serverTasks[i] EXCEPT !.status = c.arg]
                ELSE serverTasks[i]]
      [] c.fn = "deleteTask" -> SelectSeq(serverTasks, LAMBDA t : t.id # c.id)
      [] c.fn = "addComment" ->
            [i \in DOMAIN serverTasks |->
                IF serverTasks[i].id = c.id
                THEN [serverTasks[i] EXCEPT
                        !.comments = Arr(Append(CommentsOf(serverTasks[i]),
                                                Comment(NextCommentId,
                                                        currentUser.v.id)))]
                ELSE serverTasks[i]]
      [] c.fn = "deleteComment" ->
            [i \in DOMAIN serverTasks |->
                IF serverTasks[i].comments.t = "arr"
                THEN [serverTasks[i] EXCEPT
                        !.comments = Arr(SelectSeq(serverTasks[i].comments.v,
                                                   LAMBDA k : k.id # c.id))]
                ELSE serverTasks[i]]

(***************************************************************************)
(* CreateTaskForm (components/create-task-form.tsx), as its tests in       *)
(* src/components/create-task-form.test.tsx describe it: a form whose      *)
(* action state comes from useActionState(createTask, ...), whose submit   *)
(* button reads useFormStatus(), and which calls its onFinish prop once    *)
(* the action state reports success.                                       *)
(***************************************************************************)
\* a callback given as a prop
Fn == [t |-> "function"]

\* the action state before any submission
initialState == [error |-> Null, success |-> FALSE, message |-> ""]

\* the action states createTask returns
successState ==
    [error |-> Null, success |-> TRUE, message |-> "Task created successfully!"]

errorState ==
    [error |-> [t |-> "string", v |-> "Failed to create task. Please try again."],
     success |-> FALSE,
     message |-> ""]

Priorities == {"low", "medium", "high"}

\* the submit button with no disabled attribute
SubmitButtonNeverDisabled ==
    [disabled |-> FALSE,
     label |-> IF formPending THEN "Creating..." ELSE "Create Task"]

\* the submit button
SubmitButton ==
    [disabled |-> formPending,
     label |-> IF formPending THEN "Creating..." ELSE "Create Task"]

\* the banners over the button
ErrorBanner == IF formState.error # Null THEN formState.error.v ELSE ""

SuccessBanner == IF formState.success THEN formState.message ELSE ""

MountForm(callback) ==
    /\ onFinish = callback
    /\ title = <<>>
    /\ priority = "medium"
    /\ formState = initialState
    /\ formPending = FALSE
    /\ onFinishCalls = 0

(***************************************************************************)
(* Initial state.                                                          *)
(***************************************************************************)
NoFlags == [id \in TaskIds |-> Undefined]
NoText == [id \in TaskIds |-> <<>>]
NonePending == [id \in TaskIds |-> FALSE]

MountTasks(tasks) ==
    /\ initialTasks = tasks
    /\ serverTasks = tasks
    /\ optimisticQueue = <<>>
    /\ calls = <<>>
    /\ isPending = FALSE
    /\ openDialogs = NoFlags
    /\ openDropdowns = NoFlags
    /\ currentUser = Null
    /\ userLoad = "pending"
    /\ newComment = NoText
    /\ commentPending = NonePending

\* the page as first rendered; the form is not given a callback
Mount(tasks) == MountTasks(tasks) /\ MountForm(Undefined)

Init ==
    \E st \in [TaskIds -> Statuses] :
        Mount([i \in TaskIds |-> SeedTask(i, st[i])])

(***************************************************************************)
(* TaskList.                                                               *)
(***************************************************************************)
\* useEffect: loadCurrentUser, the promise resolved
ResolveCurrentUser(user) ==
    /\ userLoad = "pending"
    /\ currentUser' = user
    /\ userLoad' = "resolved"
    /\ UNCHANGED formVars
    /\ UNCHANGED <<initialTasks, serverTasks, optimisticQueue, calls, isPending,
                   openDialogs, openDropdowns, newComment, commentPending>>

\* useEffect: loadCurrentUser, the promise rejected and the error logged
RejectCurrentUser ==
    /\ userLoad = "pending"
    /\ userLoad' = "rejected"
    /\ UNCHANGED formVars
    /\ UNCHANGED <<initialTasks, serverTasks, optimisticQueue, calls, isPending,
                   openDialogs, openDropdowns, currentUser, newComment,
                   commentPending>>

\* what is left of the TaskComments' state and calls once the rows and
\* dialogs are as given
Remount(tasks, dialogs, text, pending, cs) ==
    /\ newComment' = KeepMounted(text, tasks, dialogs, <<>>)
    /\ commentPending' = KeepMounted(pending, tasks, dialogs, FALSE)
    /\ calls' = Orphan(cs, tasks, dialogs)

handleDelete(taskId) ==
    /\ taskId \in Ids(optimisticTasks)
    /\ Len(calls) < MaxCalls
    /\ Len(optimisticQueue) < MaxQueue
    /\ optimisticQueue' =
          Append(optimisticQueue, [action |-> "delete", task |-> [id |-> taskId]])
    /\ isPending' = TRUE
    /\ Remount(ApplyUpdates(initialTasks, optimisticQueue'), openDialogs,
               newComment, commentPending,
               Append(calls, Call("deleteTask", taskId, Undefined, 0)))
    /\ UNCHANGED formVars
    /\ UNCHANGED <<initialTasks, serverTasks, openDialogs, openDropdowns,
                   currentUser, userLoad>>

\* handleToggle without the optimistic update
handleToggleNoOverlay(task) ==
    /\ Len(calls) < MaxCalls
    /\ Len(optimisticQueue) < MaxQueue
    /\ isPending' = TRUE
    /\ calls' = Append(calls,
                       Call("updateTaskStatus", task.id,
                            IF task.status = "done" THEN "todo" ELSE "done", 0))
    /\ UNCHANGED formVars
    /\ UNCHANGED <<initialTasks, serverTasks, optimisticQueue, openDialogs,
                   openDropdowns, currentUser, userLoad, newComment,
                   commentPending>>

\* handleToggle asking for the status the row shows
handleToggleSendsCurrent(task) ==
    /\ Len(calls) < MaxCalls
    /\ Len(optimisticQueue) < MaxQueue
    /\ optimisticQueue' =
          Append(optimisticQueue, [action |-> "toggle", task |-> [id |-> task.id]])
    /\ isPending' = TRUE
    /\ calls' = Append(calls, Call("updateTaskStatus", task.id, task.status, 0))
    /\ UNCHANGED formVars
    /\ UNCHANGED <<initialTasks, serverTasks, openDialogs, openDropdowns,
                   currentUser, userLoad, newComment, commentPending>>

\* handleToggle asking for done whatever the row shows
handleToggleAlwaysDone(task) ==
    /\ Len(calls) < MaxCalls
    /\ Len(optimisticQueue) < MaxQueue
    /\ optimisticQueue' =
          Append(optimisticQueue, [action |-> "toggle", task |-> [id |-> task.id]])
    /\ isPending' = TRUE
    /\ calls' = Append(calls, Call("updateTaskStatus", task.id, "done", 0))
    /\ UNCHANGED formVars
    /\ UNCHANGED <<initialTasks, serverTasks, openDialogs, openDropdowns,
                   currentUser, userLoad, newComment, commentPending>>

\* handleToggle with the new call taking the place of the calls in flight
\* for the same task
handleToggleReplacing(task) ==
    /\ Len(calls) < MaxCalls
    /\ Len(optimisticQueue) < MaxQueue
    /\ optimisticQueue' =
          Append(optimisticQueue, [action |-> "toggle", task |-> [id |-> task.id]])
    /\ isPending' = TRUE
    /\ calls' = Append(SelectSeq(calls,
                                 LAMBDA c : ~(c.fn = "updateTaskStatus"
                                              /\ c.id = task.id)),
                       Call("updateTaskStatus", task.id,
                            IF task.status = "done" THEN "todo" ELSE "done", 0))
    /\ UNCHANGED formVars
    /\ UNCHANGED <<initialTasks, serverTasks, openDialogs, openDropdowns,
                   currentUser, userLoad, newComment, commentPending>>

handleToggle(task) ==
    /\ Len(calls) < MaxCalls
    /\ Len(optimisticQueue) < MaxQueue
    /\ optimisticQueue' =
          Append(optimisticQueue, [action |-> "toggle", task |-> [id |-> task.id]])
    /\ isPending' = TRUE
    /\ calls' = Append(calls,
                       Call("updateTaskStatus", task.id,
                            IF task.status = "done" THEN "todo" ELSE "done", 0))
    /\ UNCHANGED formVars
    /\ UNCHANGED <<initialTasks, serverTasks, openDialogs, openDropdowns,
                   currentUser, userLoad, newComment, commentPending>>

\* the Checkbox of a rendered row
ToggleRow ==
    \E i \in DOMAIN optimisticTasks : handleToggle(optimisticTasks[i])

setOpenDialogs(taskId, open) ==
    /\ openDialogs' = [openDialogs EXCEPT ![taskId] = Bool(open)]
    /\ Remount(optimisticTasks, openDialogs', newComment, commentPending, calls)

\* EditTaskForm's onFinish
handleCloseDialog(taskId) ==
    /\ MountedIn(optimisticTasks, openDialogs, taskId)
    /\ setOpenDialogs(taskId, FALSE)
    /\ UNCHANGED formVars
    /\ UNCHANGED <<initialTasks, serverTasks, optimisticQueue, isPending,
                   openDropdowns, currentUser, userLoad>>

\* handleEditClick with the current user loaded again
handleEditClickReloadsUser(taskId) ==
    /\ taskId \in Ids(optimisticTasks)
    /\ openDropdowns' = [openDropdowns EXCEPT ![taskId] = Bool(FALSE)]
    /\ setOpenDialogs(taskId, TRUE)
    /\ userLoad' = "pending"
    /\ UNCHANGED formVars
    /\ UNCHANGED <<initialTasks, serverTasks, optimisticQueue, isPending,
                   currentUser>>

\* handleEditClick leaving the dropdown as it is
handleEditClickKeepsDropdown(taskId) ==
    /\ taskId \in Ids(optimisticTasks)
    /\ setOpenDialogs(taskId, TRUE)
    /\ UNCHANGED formVars
    /\ UNCHANGED <<initialTasks, serverTasks, optimisticQueue, isPending,
                   openDropdowns, currentUser, userLoad>>

handleEditClick(taskId) ==
    /\ taskId \in Ids(optimisticTasks)
    /\ openDropdowns' = [openDropdowns EXCEPT ![taskId] = Bool(FALSE)]
    /\ setOpenDialogs(taskId, TRUE)
    /\ UNCHANGED formVars
    /\ UNCHANGED <<initialTasks, serverTasks, optimisticQueue, isPending,
                   currentUser, userLoad>>

\* Dialog's onOpenChange
DialogOpenChange(taskId, open) ==
    /\ taskId \in Ids(optimisticTasks)
    /\ setOpenDialogs(taskId, open)
    /\ UNCHANGED formVars
    /\ UNCHANGED <<initialTasks, serverTasks, optimisticQueue, isPending,
                   openDropdowns, currentUser, userLoad>>

\* DropdownMenu's onOpenChange
DropdownOpenChange(taskId, open) ==
    /\ taskId \in Ids(optimisticTasks)
    /\ openDropdowns' = [openDropdowns EXCEPT ![taskId] = Bool(open)]
    /\ UNCHANGED formVars
    /\ UNCHANGED <<initialTasks, serverTasks, optimisticQueue, calls, isPending,
                   openDialogs, currentUser, userLoad, newComment, commentPending>>

(***************************************************************************)
(* TaskComments.                                                           *)
(***************************************************************************)
CommentChars == {"a", " "}

RECURSIVE TextsOfLen(_)
TextsOfLen(n) ==
    IF n = 0 THEN {<<>>}
    ELSE {Append(s, c) : s \in TextsOfLen(n - 1), c \in CommentChars}

\* what a user may have in the textarea
Texts == UNION {TextsOfLen(n) : n \in 0 .. MaxCommentLen}

\* the Textarea's onChange; the textarea is disabled while isPending
onChange(id, text) ==
    /\ Mounted(id)
    /\ AddFormRendered(PropsOf(id))
    /\ ~TextareaDisabled(id)
    /\ newComment' = [newComment EXCEPT ![id] = text]
    /\ UNCHANGED formVars
    /\ UNCHANGED <<initialTasks, serverTasks, optimisticQueue, calls, isPending,
                   openDialogs, openDropdowns, currentUser, userLoad,
                   commentPending>>

\* !newComment
IsEmpty(text) == ~Truthy(Str(text))

\* !newComment.trim()
IsBlank(text) == ~Truthy(Str(trim(text)))

\* handleAddComment sending the trimmed text
handleAddCommentTrimmed(id) ==
    /\ Mounted(id)
    /\ AddFormRendered(PropsOf(id))
    /\ Len(calls) < MaxCalls
    /\ IF IsBlank(newComment[id])
       THEN UNCHANGED <<calls, commentPending>>
       ELSE /\ calls' = Append(calls,
                               Call("addComment", PropsOf(id).taskId,
                                    Str(trim(newComment[id])), id))
            /\ commentPending' = [commentPending EXCEPT ![id] = TRUE]
    /\ UNCHANGED formVars
    /\ UNCHANGED <<initialTasks, serverTasks, optimisticQueue, isPending,
                   openDialogs, openDropdowns, currentUser, userLoad, newComment>>

handleAddComment(id) ==
    /\ Mounted(id)
    /\ AddFormRendered(PropsOf(id))
    /\ Len(calls) < MaxCalls
    /\ IF IsBlank(newComment[id])
       THEN UNCHANGED <<calls, commentPending>>
       ELSE /\ calls' = Append(calls,
                               Call("addComment", PropsOf(id).taskId,
                                    Str(newComment[id]), id))
            /\ commentPending' = [commentPending EXCEPT ![id] = TRUE]
    /\ UNCHANGED formVars
    /\ UNCHANGED <<initialTasks, serverTasks, optimisticQueue, isPending,
                   openDialogs, openDropdowns, currentUser, userLoad, newComment>>

\* the Add Comment button, which does nothing while it is disabled
ClickAddComment(id) ==
    /\ Mounted(id)
    /\ ~AddDisabled(id)
    /\ handleAddComment(id)

handleDeleteComment(id, commentId) ==
    /\ Mounted(id)
    /\ Len(calls) < MaxCalls
    /\ calls' = Append(calls, Call("deleteComment", commentId, Undefined, id))
    /\ commentPending' = [commentPending EXCEPT ![id] = TRUE]
    /\ UNCHANGED formVars
    /\ UNCHANGED <<initialTasks, serverTasks, optimisticQueue, isPending,
                   openDialogs, openDropdowns, currentUser, userLoad, newComment>>

\* a delete button rendered for every comment
ClickDeleteAnyComment(id) ==
    /\ Mounted(id)
    /\ ~DeleteDisabled(id)
    /\ \E j \in DOMAIN CommentRows(PropsOf(id)) :
          handleDeleteComment(id, CommentRows(PropsOf(id))[j].id)

\* a comment's delete button: rendered if canDeleteComment, disabled while
\* isPending
ClickDeleteComment(id) ==
    /\ Mounted(id)
    /\ ~DeleteDisabled(id)
    /\ \E commentId \in DeleteButtons(PropsOf(id)) :
          handleDeleteComment(id, commentId)

(***************************************************************************)
(* What happens outside the two components.                                *)
(***************************************************************************)
\* Settle with addComment's continuation clearing the textarea whatever
\* the result
SettleAlwaysClears(i, outcome) ==
    LET c == calls[i]
        settled == Without(calls, i)
    IN  /\ outcome = "ok" => CanSucceed(c)
        /\ calls' = settled
        /\ serverTasks' = IF outcome = "ok" THEN Carried(c) ELSE serverTasks
        /\ newComment' =
              IF c.fn = "addComment" /\ c.live
              THEN [newComment EXCEPT ![c.view] = <<>>]
              ELSE newComment
        /\ optimisticQueue' = IF ScopeEnded(settled) THEN <<>> ELSE optimisticQueue
        /\ isPending' = IF ScopeEnded(settled) THEN FALSE ELSE isPending
        /\ commentPending' =
              IF ScopeEnded(settled) THEN NonePending ELSE commentPending
        /\ UNCHANGED formVars
        /\ UNCHANGED <<initialTasks, openDialogs, openDropdowns, currentUser,
                       userLoad>>

\* Settle with the optimistic updates outliving the transitions
SettleKeepsUpdates(i, outcome) ==
    LET c == calls[i]
        settled == Without(calls, i)
    IN  /\ outcome = "ok" => CanSucceed(c)
        /\ calls' = settled
        /\ serverTasks' = IF outcome = "ok" THEN Carried(c) ELSE serverTasks
        /\ newComment' =
              IF c.fn = "addComment" /\ outcome = "ok" /\ c.live
              THEN [newComment EXCEPT ![c.view] = <<>>]
              ELSE newComment
        /\ isPending' = IF ScopeEnded(settled) THEN FALSE ELSE isPending
        /\ commentPending' =
              IF ScopeEnded(settled) THEN NonePending ELSE commentPending
        /\ UNCHANGED formVars
        /\ UNCHANGED <<initialTasks, optimisticQueue, openDialogs, openDropdowns,
                       currentUser, userLoad>>

\* Settle with every optimistic update dropped as soon as one call settles
SettleDropsUpdates(i, outcome) ==
    LET c == calls[i]
        settled == Without(calls, i)
    IN  /\ outcome = "ok" => CanSucceed(c)
        /\ calls' = settled
        /\ serverTasks' = IF outcome = "ok" THEN Carried(c) ELSE serverTasks
        /\ newComment' =
              IF c.fn = "addComment" /\ outcome = "ok" /\ c.live
              THEN [newComment EXCEPT ![c.view] = <<>>]
              ELSE newComment
        /\ optimisticQueue' = <<>>
        /\ isPending' = IF ScopeEnded(settled) THEN FALSE ELSE isPending
        /\ commentPending' =
              IF ScopeEnded(settled) THEN NonePending ELSE commentPending
        /\ UNCHANGED formVars
        /\ UNCHANGED <<initialTasks, openDialogs, openDropdowns, currentUser,
                       userLoad>>

\* an awaited call settles; addComment's continuation runs in the
\* TaskComments that awaited it
Settle(i, outcome) ==
    LET c == calls[i]
        settled == Without(calls, i)
    IN  /\ outcome = "ok" => CanSucceed(c)
        /\ calls' = settled
        /\ serverTasks' = IF outcome = "ok" THEN Carried(c) ELSE serverTasks
        /\ newComment' =
              IF c.fn = "addComment" /\ outcome = "ok" /\ c.live
              THEN [newComment EXCEPT ![c.view] = <<>>]
              ELSE newComment
        /\ optimisticQueue' = IF ScopeEnded(settled) THEN <<>> ELSE optimisticQueue
        /\ isPending' = IF ScopeEnded(settled) THEN FALSE ELSE isPending
        /\ commentPending' =
              IF ScopeEnded(settled) THEN NonePending ELSE commentPending
        /\ UNCHANGED formVars
        /\ UNCHANGED <<initialTasks, openDialogs, openDropdowns, currentUser,
                       userLoad>>

\* the page renders TaskList again with the tasks read from the store
Refresh ==
    /\ initialTasks # serverTasks
    /\ initialTasks' = serverTasks
    /\ Remount(ApplyUpdates(serverTasks, optimisticQueue), openDialogs,
               newComment, commentPending, calls)
    /\ UNCHANGED formVars
    /\ UNCHANGED <<serverTasks, optimisticQueue, isPending, openDialogs,
                   openDropdowns, currentUser, userLoad>>

(***************************************************************************)
(* CreateTaskForm.                                                         *)
(***************************************************************************)
taskVars == <<initialTasks, serverTasks, optimisticQueue, calls, isPending,
              openDialogs, openDropdowns, currentUser, userLoad, newComment,
              commentPending>>

\* typing in the Title input
TitleChange(text) ==
    /\ text # title
    /\ title' = text
    /\ UNCHANGED <<onFinish, priority, formState, formPending, onFinishCalls>>
    /\ UNCHANGED taskVars

\* choosing in the Priority select
PriorityChange(p) ==
    /\ p # priority
    /\ priority' = p
    /\ UNCHANGED <<onFinish, title, formState, formPending, onFinishCalls>>
    /\ UNCHANGED taskVars

\* clicking the submit button: the Title input is required, and the form
\* action runs
Submit ==
    /\ ~SubmitButton.disabled
    /\ title # <<>>
    /\ onFinishCalls < MaxFinish
    /\ formPending' = TRUE
    /\ UNCHANGED <<onFinish, title, priority, formState, onFinishCalls>>
    /\ UNCHANGED taskVars

\* the effect on the action state: onFinish is called for a success, if
\* there is one
FinishEffect(state) ==
    IF state.success /\ Truthy(onFinish) THEN onFinishCalls + 1 ELSE onFinishCalls

\* the effect calling onFinish for any new action state
FormActionDoneAlwaysFinishes(state) ==
    /\ formPending
    /\ formPending' = FALSE
    /\ formState' = state
    /\ onFinishCalls' = IF Truthy(onFinish) THEN onFinishCalls + 1 ELSE onFinishCalls
    /\ UNCHANGED <<onFinish, title, priority>>
    /\ UNCHANGED taskVars

\* the form action returns the new action state, and the effect runs
FormActionDone(state) ==
    /\ formPending
    /\ formPending' = FALSE
    /\ formState' = state
    /\ onFinishCalls' = FinishEffect(state)
    /\ UNCHANGED <<onFinish, title, priority>>
    /\ UNCHANGED taskVars

(***************************************************************************)
(* The specification.                                                      *)
(***************************************************************************)
Next ==
    \/ \E user \in CurrentUsers : ResolveCurrentUser(user)
    \/ ResolveCurrentUser(Null)
    \/ RejectCurrentUser
    \/ ToggleRow
    \/ \E id \in TaskIds : handleDelete(id)
    \/ \E id \in TaskIds : handleEditClick(id)
    \/ \E id \in TaskIds : handleCloseDialog(id)
    \/ \E id \in TaskIds, open \in BOOLEAN : DialogOpenChange(id, open)
    \/ \E id \in TaskIds, open \in BOOLEAN : DropdownOpenChange(id, open)
    \/ \E id \in TaskIds, text \in Texts : onChange(id, text)
    \/ \E id \in TaskIds : ClickAddComment(id)
    \/ \E id \in TaskIds : ClickDeleteComment(id)
    \/ \E i \in DOMAIN calls, outcome \in {"ok", "failed"} : Settle(i, outcome)
    \/ Refresh
    \/ \E text \in Texts : TitleChange(text)
    \/ \E p \in Priorities : PriorityChange(p)
    \/ Submit
    \/ \E state \in {successState, errorState} : FormActionDone(state)

Spec == Init /\ [][Next]_vars

(***************************************************************************)
(* The optimistic collection: the rows' checkboxes and Delete items, the   *)
(* calls they make and the page's refresh, together with the calls of      *)
(* TaskComments, which are awaited in the same transition scope: the       *)
(* author of the seeded comment is loaded, the dialog of the row that has  *)
(* the comment is opened, comments are written and added, and comments are *)
(* deleted.  SpecRows has the other users and the closing of the dialog,   *)
(* on a page of one task.                                                  *)
(***************************************************************************)
\* the rows seeded with comments
CommentedRows == {i \in TaskIds : SeedTask(i, "todo").comments # Undefined}

\* the users who wrote the seeded comments
Authors ==
    UNION {{Obj(User(SeedTask(i, "todo").comments.v[j].authorId)) :
                j \in DOMAIN SeedTask(i, "todo").comments.v} :
           i \in CommentedRows}

NextTasks ==
    \/ ToggleRow
    \/ \E id \in TaskIds : handleDelete(id)
    \/ \E i \in DOMAIN calls, outcome \in {"ok", "failed"} : Settle(i, outcome)
    \/ Refresh
    \/ \E user \in Authors : ResolveCurrentUser(user)
    \/ \E id \in CommentedRows : handleEditClick(id)
    \/ \E id \in CommentedRows, text \in Texts : onChange(id, text)
    \/ \E id \in CommentedRows : ClickAddComment(id)
    \/ \E id \in CommentedRows : ClickDeleteComment(id)

SpecTasks == Init /\ [][NextTasks]_vars

(***************************************************************************)
(* The comments of the rows: the current user is loaded, dialogs open and  *)
(* close, comments are written, added and deleted, rows are toggled, on a  *)
(* page of one task.                                                       *)
(***************************************************************************)
InitComments == \E status \in Statuses : Mount(<<SeedTask(1, status)>>)

NextComments ==
    \/ \E user \in CurrentUsers : ResolveCurrentUser(user)
    \/ ResolveCurrentUser(Null)
    \/ RejectCurrentUser
    \/ ToggleRow
    \/ \E id \in TaskIds : handleEditClick(id)
    \/ \E id \in TaskIds : handleCloseDialog(id)
    \/ \E id \in TaskIds, text \in Texts : onChange(id, text)
    \/ \E id \in TaskIds : ClickAddComment(id)
    \/ \E id \in TaskIds : ClickDeleteComment(id)
    \/ \E i \in DOMAIN calls, outcome \in {"ok", "failed"} : Settle(i, outcome)
    \/ Refresh

SpecComments == InitComments /\ [][NextComments]_vars

(***************************************************************************)
(* The same, with the handler of the Add Comment button also invoked on    *)
(* its own, as a test of the component would, whatever the button's        *)
(* disabled attribute.                                                     *)
(***************************************************************************)
InvokeAddComment(id) == handleAddComment(id)

NextHandlers ==
    \/ NextComments
    \/ \E id \in TaskIds : InvokeAddComment(id)

SpecHandlers == InitComments /\ [][NextHandlers]_vars

(***************************************************************************)
(* The comments of the rows, with the rows' Delete items as well.          *)
(***************************************************************************)
NextRows ==
    \/ NextComments
    \/ \E id \in TaskIds : handleDelete(id)

SpecRows == InitComments /\ [][NextRows]_vars

(***************************************************************************)
(* What a page renders for the data it is given: one task with one         *)
(* comment, whose names and ids range over the data below, the current     *)
(* user loaded and the task's dialog opened and closed.                    *)
(***************************************************************************)
NameChars == {"j", "S", " ", "\t"}

RECURSIVE NamesOfLen(_)
NamesOfLen(n) ==
    IF n = 0 THEN {<<>>}
    ELSE {Append(s, c) : s \in NamesOfLen(n - 1), c \in NameChars}

Names == UNION {NamesOfLen(n) : n \in 0 .. MaxNameLen} \cup {JaneSmith}

\* User.name
NameValues == {Null} \cup {Str(n) : n \in Names}

\* ids as the database gives them out
DataIds == 1 .. MaxDataId

\* the users getCurrentUser() resolves to, with ids as the database gives
\* them out
DataUsers == {Obj(User(u)) : u \in DataIds}

DataTask(name, assignee, creatorId, authorId) ==
    [id |-> 1,
     status |-> "todo",
     priority |-> "medium",
     assignee |-> assignee,
     creatorId |-> creatorId,
     comments |-> Arr(<<[id |-> 1, authorId |-> authorId,
                         author |-> [id |-> authorId, name |-> name]]>>)]

InitData ==
    \E name \in NameValues, authorId \in DataIds :
    \E assignee \in {Undefined, Null, Obj([name |-> name])} :
    \E creatorId \in {Undefined} \cup {Num(i) : i \in DataIds} :
        Mount(<<DataTask(name, assignee, creatorId, authorId)>>)

NextData ==
    \/ \E user \in DataUsers : ResolveCurrentUser(user)
    \/ ResolveCurrentUser(Null)
    \/ RejectCurrentUser
    \/ \E id \in TaskIds : handleEditClick(id)
    \/ \E id \in TaskIds : handleCloseDialog(id)

SpecData == InitData /\ [][NextData]_vars

(***************************************************************************)
(* Who may write and delete comments: a page of one task with one comment, *)
(* the task's creator, the comment's author and the current user ranging   *)
(* over the ids, the creator possibly undefined.                           *)
(***************************************************************************)
InitAuth ==
    \E authorId \in DataIds :
    \E creatorId \in {Undefined} \cup {Num(i) : i \in DataIds} :
        Mount(<<DataTask(Null, Null, creatorId, authorId)>>)

NextAuth ==
    \/ \E user \in DataUsers : ResolveCurrentUser(user)
    \/ ResolveCurrentUser(Null)
    \/ RejectCurrentUser
    \/ \E id \in TaskIds : handleEditClick(id)
    \/ \E id \in TaskIds : handleCloseDialog(id)
    \/ \E id \in TaskIds, text \in Texts : onChange(id, text)
    \/ \E id \in TaskIds : ClickAddComment(id)
    \/ \E id \in TaskIds : ClickDeleteComment(id)
    \/ \E i \in DOMAIN calls, outcome \in {"ok", "failed"} : Settle(i, outcome)
    \/ Refresh

SpecAuth == InitAuth /\ [][NextAuth]_vars

(***************************************************************************)
(* The dialogs and dropdowns of the rows of a page of tasks that are all   *)
(* todo, while rows are toggled, calls settle and the page is refreshed.   *)
(***************************************************************************)
InitDialogs == Mount([i \in TaskIds |-> SeedTask(i, "todo")])

NextDialogs ==
    \/ \E id \in TaskIds, open \in BOOLEAN : DropdownOpenChange(id, open)
    \/ \E id \in TaskIds, open \in BOOLEAN : DialogOpenChange(id, open)
    \/ \E id \in TaskIds : handleEditClick(id)
    \/ \E id \in TaskIds : handleCloseDialog(id)
    \/ ToggleRow
    \/ \E i \in DOMAIN calls, outcome \in {"ok", "failed"} : Settle(i, outcome)
    \/ Refresh

SpecDialogs == InitDialogs /\ [][NextDialogs]_vars

(***************************************************************************)
(* What is written in the Textarea: a page of one task, with texts of      *)
(* letters and spaces, so that a text can start and end with white space.  *)
(***************************************************************************)
Inputs == UNION {TextsOfLen(n) : n \in 0 .. MaxInputLen}

InitInput == Mount(<<SeedTask(1, "todo")>>)

NextInput ==
    \/ \E user \in CurrentUsers : ResolveCurrentUser(user)
    \/ \E id \in TaskIds : handleEditClick(id)
    \/ \E id \in TaskIds : handleCloseDialog(id)
    \/ \E id \in TaskIds, text \in Inputs : onChange(id, text)
    \/ \E id \in TaskIds : ClickAddComment(id)
    \/ \E i \in DOMAIN calls, outcome \in {"ok", "failed"} : Settle(i, outcome)
    \/ Refresh

SpecInput == InitInput /\ [][NextInput]_vars

(***************************************************************************)
(* CreateTaskForm alone, with and without an onFinish prop, on a page with *)
(* no tasks.                                                               *)
(***************************************************************************)
InitForm == \E callback \in {Undefined, Fn} : MountTasks(<<>>) /\ MountForm(callback)

NextForm ==
    \/ \E text \in Texts : TitleChange(text)
    \/ \E p \in Priorities : PriorityChange(p)
    \/ Submit
    \/ \E state \in {successState, errorState} : FormActionDone(state)

SpecForm == InitForm /\ [][NextForm]_vars

(***************************************************************************)
(* Properties.                                                             *)
(***************************************************************************)
StatusIn(tasks, id) == TaskOf(tasks, id).status

IsToggleOf(update, id) == update.action = "toggle" /\ update.task.id = id

\* the last two updates queued are toggles of the task
ToggledTwice(id) ==
    /\ Len(optimisticQueue) >= 2
    /\ IsToggleOf(optimisticQueue[Len(optimisticQueue)], id)
    /\ IsToggleOf(optimisticQueue[Len(optimisticQueue) - 1], id)

\* the optimistic collection as it was before the last two updates
BeforeLastTwo ==
    ApplyUpdates(initialTasks, SubSeq(optimisticQueue, 1, Len(optimisticQueue) - 2))

\* C1 as stated: whatever the status of a task (todo, in_progress or done),
\* two toggles in a row, nothing in between, give the task in the optimistic
\* collection the status it had before them.
C1_Original ==
    \A id \in TaskIds :
        ToggledTwice(id) /\ id \in Ids(BeforeLastTwo)
        => StatusIn(optimisticTasks, id) = StatusIn(BeforeLastTwo, id)

\* C1, amended: for a task whose status is todo or done, two toggles in a
\* row, nothing in between, give the task in the optimistic collection the
\* status it had before them.
C1_ToggleTwice ==
    \A id \in TaskIds :
        /\ ToggledTwice(id)
        /\ id \in Ids(BeforeLastTwo)
        /\ StatusIn(BeforeLastTwo, id) \in {"todo", "done"}
        => StatusIn(optimisticTasks, id) = StatusIn(BeforeLastTwo, id)

C1_Witness ==
    \E id \in TaskIds :
        /\ ToggledTwice(id)
        /\ id \in Ids(BeforeLastTwo)
        /\ StatusIn(BeforeLastTwo, id) = "todo"
        /\ StatusIn(optimisticTasks, id) = "todo"

\* the tasks whose deleteTask call is in flight
DeletesInFlight ==
    {calls[i].id : i \in {j \in DOMAIN calls : calls[j].fn = "deleteTask"}}

\* C2 as stated: once deleteTask(taskId) is invoked the task is out of the
\* rendered optimistic collection, and it never comes back, whether the
\* call succeeds, fails or never settles.
C2_Original ==
    /\ [](\A id \in DeletesInFlight : id \notin Ids(optimisticTasks))
    /\ [][\A id \in DeletesInFlight :
            id \notin Ids(optimisticTasks) => id \notin Ids(optimisticTasks)']_vars

\* C2, amended: once deleteTask(taskId) is invoked the task is out of the
\* rendered optimistic collection, and it stays out for as long as the call
\* is in flight; when no call is in flight any more, the rendered
\* collection is the confirmed one again.
C2_AbsentWhileInFlight ==
    /\ \A id \in DeletesInFlight : id \notin Ids(optimisticTasks)
    /\ calls = <<>> => optimisticTasks = initialTasks

C2_Witness ==
    \E id \in DeletesInFlight :
        id \in Ids(initialTasks) /\ id \notin Ids(optimisticTasks)

\* C3: canDeleteComment is truthy exactly when currentUserId is defined and
\* equals the comment's authorId or the task's creator id; it is falsy in
\* every other case, also when currentUserId and taskCreatorId are both
\* undefined.
C3_CanDelete ==
    \A i \in DOMAIN optimisticTasks :
        LET props == CommentsProps(optimisticTasks[i], currentUser)
        IN  \A j \in DOMAIN props.comments :
                Truthy(canDeleteComment(props, props.comments[j]))
                <=> /\ props.currentUserId # Undefined
                    /\ \/ props.currentUserId = Num(props.comments[j].authorId)
                       \/ props.currentUserId = props.taskCreatorId

C3_Witness ==
    /\ Mounted(1)
    /\ PropsOf(1).currentUserId = Num(3)
    /\ PropsOf(1).taskCreatorId = Num(3)
    /\ PropsOf(1).comments[1].authorId = 2
    /\ DeleteButtons(PropsOf(1)) = {1}

CountOf(seq, Test(_)) == Cardinality({i \in DOMAIN seq : Test(seq[i])})

\* the updateTaskStatus calls in flight for a task
ToggleCalls(id) ==
    CountOf(calls, LAMBDA c : c.fn = "updateTaskStatus" /\ c.id = id)

QueuedToggles(id) == CountOf(optimisticQueue, LAMBDA u : IsToggleOf(u, id))

QueuedDeletes(id) ==
    CountOf(optimisticQueue, LAMBDA u : u.action = "delete" /\ u.task.id = id)

\* C4: the flip of a toggle is in the optimistic collection before its
\* updateTaskStatus call settles.  No call is in flight without its flip
\* queued; the step that makes the call flips the row it was made from, so
\* that a row showing todo shows done; and a task confirmed todo with one
\* toggle queued shows done while the call is in flight.
C4_FlipBeforeSettle ==
    /\ [](\A id \in TaskIds :
            /\ QueuedToggles(id) >= ToggleCalls(id)
            /\ /\ ToggleCalls(id) = 1
               /\ QueuedToggles(id) = 1
               /\ QueuedDeletes(id) = 0
               /\ id \in Ids(initialTasks)
               /\ StatusIn(initialTasks, id) = "todo"
               => StatusIn(optimisticTasks, id) = "done")
    /\ [][\A id \in Ids(optimisticTasks) :
            ToggleCalls(id)' > ToggleCalls(id)
            => /\ id \in Ids(optimisticTasks)'
               /\ StatusIn(optimisticTasks, id) = "todo"
                  => StatusIn(optimisticTasks, id)' = "done"
               /\ StatusIn(optimisticTasks, id) # "todo"
                  => StatusIn(optimisticTasks, id)' # StatusIn(optimisticTasks, id)]_vars

C4_Witness ==
    \E id \in Ids(optimisticTasks) :
        /\ ToggleCalls(id) = 1
        /\ StatusIn(initialTasks, id) = "todo"
        /\ StatusIn(optimisticTasks, id) = "done"

\* the text is empty or made of white space only
OnlyWhiteSpace(text) == \A i \in DOMAIN text : text[i] \in WhiteSpace

\* C5: handleAddComment on an input that is empty or white space only makes
\* no call of a server action, starts no transition and leaves the input as
\* it was.
C5_BlankIsNoOp ==
    [][\A id \in TaskIds :
        handleAddComment(id) /\ OnlyWhiteSpace(newComment[id])
        => /\ calls' = calls
           /\ commentPending' = commentPending
           /\ isPending' = isPending
           /\ newComment' = newComment]_vars

C5_Witness ==
    \E id \in TaskIds :
        /\ Mounted(id)
        /\ AddFormRendered(PropsOf(id))
        /\ newComment[id] # <<>>
        /\ OnlyWhiteSpace(newComment[id])
        /\ ENABLED handleAddComment(id)
        /\ calls = <<>>
        /\ ~commentPending[id]

\* C6: when the addComment call of a mounted TaskComments settles with
\* success, its textarea is emptied; when it settles without success the
\* textarea keeps the text that was submitted, and nothing else of the
\* components' state records the failure.
C6_SuccessClearsInput ==
    [][\A i \in DOMAIN calls :
        calls[i].fn = "addComment" /\ calls[i].live
        => /\ Settle(i, "ok") => newComment'[calls[i].view] = <<>>
           /\ Settle(i, "failed")
              => /\ newComment'[calls[i].view] = calls[i].arg.v
                 /\ newComment' = newComment
                 /\ UNCHANGED formVars
                 /\ UNCHANGED <<initialTasks, serverTasks, openDialogs,
                                openDropdowns, currentUser, userLoad>>]_vars

\* a comment was added to the store, nothing is in flight and the textarea
\* of the task is empty
C6_Witness ==
    \E id \in TaskIds :
        /\ Mounted(id)
        /\ AddFormRendered(PropsOf(id))
        /\ calls = <<>>
        /\ id \in Ids(serverTasks)
        /\ \E j \in DOMAIN CommentsOf(TaskOf(serverTasks, id)) :
              CommentsOf(TaskOf(serverTasks, id))[j].id > 1
        /\ newComment[id] = <<>>
        /\ ~commentPending[id]

\* C7: when getCurrentUser() rejects, the current user stays unset, no
\* mounted TaskComments renders the add form and each still renders its
\* comments; in general the add form is rendered exactly when there is a
\* current user.
C7_NoUserNoForm ==
    /\ userLoad = "rejected" => currentUser = Null
    /\ \A id \in TaskIds :
        Mounted(id)
        => /\ AddFormRendered(PropsOf(id)) <=> currentUser.t = "obj"
           /\ userLoad = "rejected"
              => /\ ~AddFormRendered(PropsOf(id))
                 /\ CommentRows(PropsOf(id)) = CommentsOf(TaskOf(initialTasks, id))

C7_Witness ==
    /\ userLoad = "rejected"
    /\ \E id \in TaskIds :
        /\ Mounted(id)
        /\ ~AddFormRendered(PropsOf(id))
        /\ Len(CommentRows(PropsOf(id))) = 1

\* C8, amended: the comment count shown for a task, in the row's badge and
\* in the header of its TaskComments, is the length of the comments the
\* page last gave for the task, whatever calls were made or have settled
\* since; when there are none the header shows 0 and the row has no badge.
C8_CountIsLastReceived ==
    \A i \in DOMAIN optimisticTasks :
        LET task == optimisticTasks[i]
            received == CommentsOf(TaskOf(initialTasks, task.id))
        IN  /\ CountBadge(task) =
                  IF Len(received) > 0 THEN Num(Len(received)) ELSE Undefined
            /\ Mounted(task.id) => CommentsHeader(PropsOf(task.id)) = Len(received)

\* C8 as stated: the comment count shown for a task, in the row's badge and
\* in the header of its TaskComments, is the length of the comments the
\* page last gave for the task, 0 when there are none.
C8_Original ==
    \A i \in DOMAIN optimisticTasks :
        LET task == optimisticTasks[i]
            received == CommentsOf(TaskOf(initialTasks, task.id))
        IN  /\ CountBadge(task) = Num(Len(received))
            /\ Mounted(task.id) => CommentsHeader(PropsOf(task.id)) = Len(received)

\* the store holds another number of comments than the one shown
C8_Witness ==
    \E id \in TaskIds :
        /\ Mounted(id)
        /\ id \in Ids(serverTasks)
        /\ CommentsHeader(PropsOf(id)) = 1
        /\ Len(CommentsOf(TaskOf(serverTasks, id))) # 1
        /\ optimisticQueue # <<>>

\* the first characters of the pieces of text between separators, in upper
\* case
InitialsBy(text, separators) ==
    LET starts == {i \in DOMAIN text :
                      /\ text[i] \notin separators
                      /\ i = 1 \/ text[i - 1] \in separators}
        at == SelectSeq([i \in 1 .. Len(text) |-> i], LAMBDA i : i \in starts)
    IN  [k \in DOMAIN at |-> UpperChar(text[at[k]])]

AssigneeName(task) == OrElse(OptName(task.assignee), Null)

\* C9 as stated: the initials of a name are the first characters of its
\* pieces between white space, in upper case; "Jane Smith" gives "JS"; and
\* TaskComments derives the same initials as TaskList from every name.
C9_Original ==
    \A i \in DOMAIN optimisticTasks :
        LET task == optimisticTasks[i]
        IN  /\ Truthy(AssigneeName(task))
               => AvatarFallback(task) = InitialsBy(AssigneeName(task).v, WhiteSpace)
            /\ AssigneeName(task) = Str(JaneSmith) => AvatarFallback(task) = <<"J", "S">>
            /\ \A j \in DOMAIN CommentsOf(task) :
                  CommentAvatar(CommentsOf(task)[j])
                  = getInitials(CommentsOf(task)[j].author.name)

\* C9, amended: the initials of a name are the first characters of its
\* pieces between space characters, in upper case; "Jane Smith" gives "JS";
\* and TaskComments derives the same initials as TaskList from every name.
C9_Initials ==
    \A i \in DOMAIN optimisticTasks :
        LET task == optimisticTasks[i]
        IN  /\ Truthy(AssigneeName(task))
               => AvatarFallback(task) = InitialsBy(AssigneeName(task).v, {" "})
            /\ AssigneeName(task) = Str(JaneSmith) => AvatarFallback(task) = <<"J", "S">>
            /\ \A j \in DOMAIN CommentsOf(task) :
                  /\ CommentAvatar(CommentsOf(task)[j])
                     = getInitials(CommentsOf(task)[j].author.name)
                  /\ Truthy(CommentsOf(task)[j].author.name)
                     => CommentAvatar(CommentsOf(task)[j])
                        = InitialsBy(CommentsOf(task)[j].author.name.v, {" "})

C9_Witness ==
    \E i \in DOMAIN optimisticTasks :
        /\ Mounted(optimisticTasks[i].id)
        /\ AssigneeName(optimisticTasks[i]) = Str(JaneSmith)
        /\ AvatarFallback(optimisticTasks[i]) = <<"J", "S">>
        /\ CommentAvatar(CommentsOf(optimisticTasks[i])[1]) = <<"J", "S">>

\* C10: a task with no assignee, or whose assignee has no name or an empty
\* one, shows "??" in its avatar, and so does a comment whose author has no
\* name or an empty one.
C10_Placeholder ==
    \A i \in DOMAIN optimisticTasks :
        LET task == optimisticTasks[i]
        IN  /\ \/ task.assignee \in {Undefined, Null}
               \/ OptName(task.assignee) \in {Null, Str(<<>>)}
               => AvatarFallback(task) = <<"?", "?">>
            /\ \A j \in DOMAIN CommentsOf(task) :
                  CommentsOf(task)[j].author.name \in {Null, Str(<<>>)}
                  => CommentAvatar(CommentsOf(task)[j]) = <<"?", "?">>

C10_Witness ==
    \E i \in DOMAIN optimisticTasks :
        /\ optimisticTasks[i].assignee = Obj([name |-> Null])
        /\ AvatarFallback(optimisticTasks[i]) = <<"?", "?">>

\* C11: CreateTaskForm's submit button is disabled and labelled
\* "Creating..." exactly when the form submission is pending, and is
\* enabled and labelled "Create Task" whenever it is not.
C11_SubmitButtonStates ==
    /\ formPending <=> SubmitButton.disabled /\ SubmitButton.label = "Creating..."
    /\ ~formPending => ~SubmitButton.disabled /\ SubmitButton.label = "Create Task"

C11_Witness ==
    /\ formPending
    /\ title # <<>>
    /\ SubmitButton = [disabled |-> TRUE, label |-> "Creating..."]

\* C12: when the form action returns, onFinish is called once if the new
\* action state reports success and there is an onFinish, and is not
\* called if the action state reports an error; a form with no onFinish
\* never calls it, whatever the action state, so that its success state is
\* reached without a call of undefined.
C12_OnFinish ==
    /\ [](onFinish = Undefined => onFinishCalls = 0)
    /\ [][formPending /\ ~formPending'
          => /\ formState'.success /\ onFinish = Fn
                => onFinishCalls' = onFinishCalls + 1
             /\ formState'.error # Null => onFinishCalls' = onFinishCalls
             /\ formState' \in {successState, errorState}]_vars
    /\ [][onFinishCalls' # onFinishCalls => formState'.success]_vars

C12_Witness ==
    /\ onFinish = Fn
    /\ formState = successState
    /\ SuccessBanner = "Task created successfully!"
    /\ onFinishCalls = 1
    /\ ~formPending

\* the status a toggle asks for when the task has the given status
Opposite(status) == IF status = "done" THEN "todo" ELSE "done"

\* the step makes a call of updateTaskStatus for the task
TogglesNow(id) == ToggleCalls(id)' > ToggleCalls(id)

\* C13 as stated: every toggle asks for the opposite of the task's
\* confirmed status, also a second toggle made while the first is in
\* flight.
C13_Original ==
    [][\A id \in Ids(initialTasks) :
          TogglesNow(id)
          => calls'[Len(calls')].arg = Opposite(StatusIn(initialTasks, id))]_vars

\* C13: every toggle asks for the opposite of the status the row showed
\* when its checkbox was used, which is the status of the optimistic
\* collection; it is the opposite of the confirmed status when no toggle of
\* the task is queued.
C13_OppositeOfRendered ==
    [][\A id \in Ids(optimisticTasks) :
          TogglesNow(id)
          => /\ calls'[Len(calls')].fn = "updateTaskStatus"
             /\ calls'[Len(calls')].id = id
             /\ calls'[Len(calls')].arg = Opposite(StatusIn(optimisticTasks, id))
             /\ QueuedToggles(id) = 0
                => calls'[Len(calls')].arg = Opposite(StatusIn(initialTasks, id))]_vars

C13_Witness ==
    \E id \in Ids(initialTasks) :
        /\ StatusIn(initialTasks, id) = "todo"
        /\ Len(calls) = 2
        /\ calls[1] = Call("updateTaskStatus", id, "done", 0)
        /\ calls[2] = Call("updateTaskStatus", id, "todo", 0)

\* the optimistic update a call of deleteTask or updateTaskStatus was made
\* with
ActionOf(c) ==
    [action |-> IF c.fn = "deleteTask" THEN "delete" ELSE "toggle",
     task |-> [id |-> c.id]]

\* the updates of the task mutations in flight, in issue order
InFlightActions ==
    LET cs == SelectSeq(calls, LAMBDA c : c.fn \in {"deleteTask", "updateTaskStatus"})
    IN  [i \in DOMAIN cs |-> ActionOf(cs[i])]

RECURSIVE IsSubSeq(_, _)
IsSubSeq(a, b) ==
    IF a = <<>> THEN TRUE
    ELSE IF b = <<>> THEN FALSE
    ELSE IF Head(a) = Head(b) THEN IsSubSeq(Tail(a), Tail(b))
    ELSE IsSubSeq(a, Tail(b))

\* C14 as stated: the rendered collection is the confirmed collection with
\* the updates of the mutations in flight applied in issue order.
C14_Original == optimisticTasks = ApplyUpdates(initialTasks, InFlightActions)

\* C14: the rendered collection is the confirmed collection with the
\* queued updates applied in issue order, where the queue holds the update
\* of every task mutation in flight, in issue order, and besides them only
\* updates of task mutations that settled while another call, of TaskList
\* or of TaskComments, was in flight; it is the confirmed collection
\* itself when no call is in flight; the queue only grows at its end, by
\* the update of a new task mutation, or is emptied, when the last call
\* in flight settles; and a change of the confirmed collection leaves the
\* queue as it is.
C14_Projection ==
    /\ [](/\ IsSubSeq(InFlightActions, optimisticQueue)
          /\ calls = <<>> => optimisticQueue = <<>> /\ optimisticTasks = initialTasks
          /\ Len(optimisticQueue) = Len(InFlightActions)
             => optimisticTasks = ApplyUpdates(initialTasks, InFlightActions))
    /\ [][optimisticQueue' # optimisticQueue
          => \/ /\ optimisticQueue' = <<>>
                /\ calls' = <<>>
                /\ Len(calls) = 1
             \/ /\ Len(optimisticQueue') = Len(optimisticQueue) + 1
                /\ SubSeq(optimisticQueue', 1, Len(optimisticQueue)) = optimisticQueue
                /\ InFlightActions' =
                      Append(InFlightActions, optimisticQueue'[Len(optimisticQueue')])]_vars
    /\ [][initialTasks' # initialTasks
          => /\ optimisticQueue' = optimisticQueue
             /\ initialTasks' = serverTasks
             /\ optimisticTasks' = ApplyUpdates(serverTasks, optimisticQueue)]_vars

C14_Witness ==
    /\ Len(calls) = 2
    /\ InFlightActions = optimisticQueue
    /\ optimisticQueue[1].action = "delete"
    /\ optimisticQueue[2].action = "toggle"
    /\ optimisticTasks # initialTasks
    /\ Len(optimisticTasks) = Len(initialTasks) - 1

\* a toggle's call has settled while an addComment call is in flight: the
\* row is shown flipped with no task mutation in flight
C14_HeldByComment ==
    /\ Len(calls) = 1
    /\ calls[1].fn = "addComment"
    /\ Len(optimisticQueue) = 1
    /\ optimisticQueue[1].action = "toggle"
    /\ optimisticTasks # initialTasks
    /\ isPending
    /\ \E id \in CommentedRows : commentPending[id]

\* the step settles a call of updateTaskStatus for the task that the store
\* does not carry out: the store has the task, with another status than
\* the one asked for, and stays as it is
FailedToggle(id) ==
    \E i \in DOMAIN calls :
        /\ calls' = Without(calls, i)
        /\ calls[i].fn = "updateTaskStatus"
        /\ calls[i].id = id
        /\ id \in Ids(serverTasks)
        /\ calls[i].arg # StatusIn(serverTasks, id)
        /\ serverTasks' = serverTasks

\* the row of the task shows another status than the confirmed one
Flipped(id) ==
    /\ id \in Ids(optimisticTasks)
    /\ id \in Ids(initialTasks)
    /\ StatusIn(optimisticTasks, id) # StatusIn(initialTasks, id)

\* C15 as stated: when the updateTaskStatus call of a toggle fails, the
\* task stays flipped in the optimistic collection, until the confirmed
\* collection is refreshed.
C15_Original ==
    [][\A id \in TaskIds : FailedToggle(id) /\ Flipped(id) => Flipped(id)']_vars

\* C15: when the updateTaskStatus call of a toggle fails, nothing is
\* recorded and nothing is rolled back in the store or in the confirmed
\* collection; the optimistic collection stays as it is, the task flipped,
\* while another call is in flight, and is the confirmed collection again,
\* the task not flipped, once none is.
C15_FailedToggle ==
    [][\A id \in TaskIds :
          FailedToggle(id)
          => /\ initialTasks' = initialTasks
             /\ UNCHANGED <<openDialogs, openDropdowns, currentUser, userLoad,
                            newComment>>
             /\ calls' # <<>> => optimisticTasks' = optimisticTasks
             /\ calls' = <<>> => optimisticTasks' = initialTasks /\ ~Flipped(id)']_vars

\* the call of the first task's toggle has failed while the second task's
\* is in flight
C15_Witness ==
    /\ Len(calls) = 1
    /\ calls[1].fn = "updateTaskStatus"
    /\ calls[1].id = 2
    /\ Len(optimisticQueue) = 2
    /\ IsToggleOf(optimisticQueue[1], 1)
    /\ IsToggleOf(optimisticQueue[2], 2)
    /\ serverTasks = initialTasks
    /\ Flipped(1)

DeleteCommentCalls == CountOf(calls, LAMBDA c : c.fn = "deleteComment")

DeleteTaskCalls(id) == CountOf(calls, LAMBDA c : c.fn = "deleteTask" /\ c.id = id)

\* C16: a call of deleteComment leaves the TaskComments mounted and its
\* comment rows as they were, and the rows of a mounted TaskComments change
\* only when the confirmed collection does; a call of deleteTask takes the
\* task's row out of the optimistic collection in the same step.
C16_RowsUntilRefresh ==
    [][\A id \in TaskIds :
          /\ Mounted(id) /\ DeleteCommentCalls' > DeleteCommentCalls
             => /\ Mounted(id)'
                /\ CommentRows(PropsOf(id))' = CommentRows(PropsOf(id))
                /\ \E j \in DOMAIN CommentRows(PropsOf(id))' :
                      CommentRows(PropsOf(id))'[j].id = calls'[Len(calls')].id
          /\ Mounted(id) /\ Mounted(id)' /\ initialTasks' = initialTasks
             => CommentRows(PropsOf(id))' = CommentRows(PropsOf(id))
          /\ DeleteTaskCalls(id)' > DeleteTaskCalls(id)
             => id \in Ids(optimisticTasks) /\ id \notin Ids(optimisticTasks)']_vars

\* the comment is deleted in the store, the call has settled, and its row
\* is still rendered
C16_Witness ==
    \E id \in TaskIds :
        /\ Mounted(id)
        /\ calls = <<>>
        /\ id \in Ids(serverTasks)
        /\ CommentsOf(TaskOf(serverTasks, id)) = <<>>
        /\ Len(CommentRows(PropsOf(id))) = 1
        /\ CommentRows(PropsOf(id))[1].id \in DeleteButtons(PropsOf(id))

\* a call made by the mounted TaskComments of the task is in flight
InFlightFrom(id, fn) ==
    \E i \in DOMAIN calls :
        calls[i].fn = fn /\ calls[i].view = id /\ calls[i].live

CommentCalls ==
    CountOf(calls, LAMBDA c : c.fn \in {"addComment", "deleteComment"})

\* C17 as stated: while an addComment call is in flight the delete buttons
\* stay enabled, and while a deleteComment call is in flight the Add
\* Comment button is neither disabled nor relabelled (for a text that is
\* not blank, as a blank one disables it anyway).
C17_Original ==
    \A id \in TaskIds :
        Mounted(id)
        => /\ InFlightFrom(id, "addComment")
              => AddDisabled(id) /\ AddLabel(id) = "Adding..." /\ ~DeleteDisabled(id)
           /\ InFlightFrom(id, "deleteComment")
              => /\ AddLabel(id) = "Add Comment"
                 /\ ~IsBlank(newComment[id]) => ~AddDisabled(id)

\* C17: a call of addComment or deleteComment in flight from a mounted
\* TaskComments suspends the controls of that TaskComments: the Add Comment
\* button is disabled and reads "Adding...", the Textarea and every delete
\* button are disabled.  With no transition pending the button reads "Add
\* Comment" and is disabled only for a blank text, and the Textarea and the
\* delete buttons are enabled.  Making the call changes nothing of TaskList:
\* its isPending and its optimistic updates stay as they are.
C17_ViewSuspended ==
    /\ [](\A id \in TaskIds :
            Mounted(id)
            => /\ InFlightFrom(id, "addComment") \/ InFlightFrom(id, "deleteComment")
                  => commentPending[id]
               /\ commentPending[id]
                  => /\ AddDisabled(id)
                     /\ AddLabel(id) = "Adding..."
                     /\ TextareaDisabled(id)
                     /\ DeleteDisabled(id)
               /\ ~commentPending[id]
                  => /\ AddDisabled(id) <=> IsBlank(newComment[id])
                     /\ AddLabel(id) = "Add Comment"
                     /\ ~TextareaDisabled(id)
                     /\ ~DeleteDisabled(id))
    /\ [][CommentCalls' > CommentCalls
          => UNCHANGED <<isPending, optimisticQueue, initialTasks, openDialogs>>]_vars

C17_Witness ==
    \E id \in TaskIds :
        /\ Mounted(id)
        /\ InFlightFrom(id, "deleteComment")
        /\ newComment[id] = <<"a">>
        /\ AddDisabled(id)
        /\ AddLabel(id) = "Adding..."
        /\ DeleteButtons(PropsOf(id)) # {}
        /\ DeleteDisabled(id)

\* the step is a toggle or a delete of the task
DeletesNow(id) == DeleteTaskCalls(id)' > DeleteTaskCalls(id)

\* the calls in flight and the updates queued for a task
CallsOn(cs, id) ==
    SelectSeq(cs, LAMBDA c : c.fn \in {"updateTaskStatus", "deleteTask"} /\ c.id = id)

UpdatesOn(queue, id) == SelectSeq(queue, LAMBDA u : u.task.id = id)

\* there is room, within the bounds of the model, for one more call
RoomForCall == Len(calls) < MaxCalls /\ Len(optimisticQueue) < MaxQueue

\* C18: a toggle or a delete of a task leaves every other task as it was:
\* in or out of the optimistic collection, with the same fields, the same
\* calls in flight and the same updates queued; and whatever is in flight
\* for other tasks, every rendered row can be toggled and deleted.
C18_Independent ==
    /\ [][\A a \in TaskIds :
            TogglesNow(a) \/ DeletesNow(a)
            => \A b \in TaskIds \ {a} :
                  /\ b \in Ids(optimisticTasks) <=> b \in Ids(optimisticTasks)'
                  /\ b \in Ids(optimisticTasks)
                     => TaskOf(optimisticTasks, b)' = TaskOf(optimisticTasks, b)
                  /\ CallsOn(calls', b) = CallsOn(calls, b)
                  /\ UpdatesOn(optimisticQueue', b) = UpdatesOn(optimisticQueue, b)]_vars
    /\ [](\A a \in Ids(optimisticTasks) :
            RoomForCall
            => /\ ENABLED handleToggle(TaskOf(optimisticTasks, a))
               /\ ENABLED handleDelete(a))

\* a toggle of task 1 and a delete of task 2 are in flight
C18_Witness ==
    /\ Len(calls) = 2
    /\ calls[1].fn = "updateTaskStatus" /\ calls[1].id = 1
    /\ calls[2].fn = "deleteTask" /\ calls[2].id = 2
    /\ Ids(optimisticTasks) = {1}
    /\ Flipped(1)
    /\ TaskOf(optimisticTasks, 1).comments = TaskOf(initialTasks, 1).comments

\* C19: a toggle made while calls are in flight adds its call after them
\* and leaves them in flight, as they were; and of two updateTaskStatus
\* calls in flight for one task either can settle first, carried out or
\* not.
C19_TwoCalls ==
    /\ [][\A id \in TaskIds :
            QueuedToggles(id)' > QueuedToggles(id)
            => /\ Len(calls') = Len(calls) + 1
               /\ SubSeq(calls', 1, Len(calls)) = calls
               /\ ToggleCalls(id)' = ToggleCalls(id) + 1]_vars
    /\ [](\A id \in TaskIds :
            ToggleCalls(id) = 2 /\ Len(calls) = 2
            => \A i \in {1, 2} :
                  /\ ENABLED Settle(i, "failed")
                  /\ CanSucceed(calls[i]) => ENABLED Settle(i, "ok"))

\* of two toggles of a task confirmed todo, the second one's call has
\* settled and the first one's is still in flight
C19_Witness ==
    \E id \in Ids(initialTasks) :
        /\ StatusIn(initialTasks, id) = "todo"
        /\ calls = <<Call("updateTaskStatus", id, "done", 0)>>
        /\ Len(optimisticQueue) = 2
        /\ QueuedToggles(id) = 2

\* the task's calls in flight stay in flight in the step
StaysInFlight(id) ==
    /\ CallsOn(calls, id) # <<>>
    /\ Len(CallsOn(calls', id)) >= Len(CallsOn(calls, id))

\* C20 as stated: while a task's call stays in flight, a task shown
\* flipped stays flipped (or goes, if it is deleted), and a task taken out
\* stays out, whatever the component does; the confirmed collection is
\* taken as given.
C20_Original ==
    [][\A id \in TaskIds :
          StaysInFlight(id) /\ initialTasks' = initialTasks
          => /\ Flipped(id) => Flipped(id)' \/ id \notin Ids(optimisticTasks)'
             /\ id \notin Ids(optimisticTasks) => id \notin Ids(optimisticTasks)']_vars

\* C20: while a task's call stays in flight, its updates stay queued and
\* no update is taken from the queue; a task taken out stays out; and a
\* task shown flipped stays flipped unless it is toggled again or deleted.
C20_StaysSpeculative ==
    [][\A id \in TaskIds :
          StaysInFlight(id)
          => /\ Len(optimisticQueue') >= Len(optimisticQueue)
             /\ SubSeq(optimisticQueue', 1, Len(optimisticQueue)) = optimisticQueue
             /\ Len(UpdatesOn(optimisticQueue, id)) >= Len(CallsOn(calls, id))
             /\ id \notin Ids(optimisticTasks) => id \notin Ids(optimisticTasks)'
             /\ /\ Flipped(id)
                /\ initialTasks' = initialTasks
                /\ ~TogglesNow(id)
                /\ ~DeletesNow(id)
                => Flipped(id)']_vars

\* the other task's call has settled and the store was read again, while
\* the call of the task's toggle is still in flight and the task flipped
C20_Witness ==
    \E id \in Ids(initialTasks) :
        /\ calls = <<Call("updateTaskStatus", id, Opposite(StatusIn(initialTasks, id)), 0)>>
        /\ Len(optimisticQueue) = 2
        /\ QueuedToggles(id) = 1
        /\ optimisticQueue[1].task.id = id
        /\ Flipped(id)
        /\ serverTasks = initialTasks
        /\ \E b \in TaskIds \ {id} : b \notin Ids(initialTasks)

\* the comment of the rows with the given id
RowOf(props, commentId) ==
    CommentRows(props)[CHOOSE j \in DOMAIN CommentRows(props) :
                          CommentRows(props)[j].id = commentId]

\* the current user wrote the comment or created the task
AuthorOrCreator(props, comment) ==
    /\ currentUser.t = "obj"
    /\ \/ comment.authorId = currentUser.v.id
       \/ props.taskCreatorId = Num(currentUser.v.id)

\* C21: the delete button of a comment is rendered exactly when the
\* current user is known and is the comment's author or the task's creator
\* (canDeleteComment); a call of deleteComment made through a button is
\* for a comment of the rows whose button was rendered in the state the
\* click was made in; and handleDeleteComment itself makes the call for
\* whatever comment id it is given.
C21_DeleteIsAuthorized ==
    /\ [](\A id \in TaskIds :
            Mounted(id)
            => /\ \A j \in DOMAIN CommentRows(PropsOf(id)) :
                     LET comment == CommentRows(PropsOf(id))[j]
                     IN  /\ comment.id \in DeleteButtons(PropsOf(id))
                            <=> Truthy(canDeleteComment(PropsOf(id), comment))
                         /\ comment.id \in DeleteButtons(PropsOf(id))
                            <=> AuthorOrCreator(PropsOf(id), comment)
               /\ Len(calls) < MaxCalls
                  => \A commentId \in 1 .. MaxComments :
                        ENABLED handleDeleteComment(id, commentId))
    /\ [][\A id \in TaskIds :
            /\ DeleteCommentCalls' > DeleteCommentCalls
            /\ calls'[Len(calls')].view = id
            => /\ Mounted(id)
               /\ calls'[Len(calls')].id \in {k.id : k \in AllComments(optimisticTasks)}
               /\ calls'[Len(calls')].id \in DeleteButtons(PropsOf(id))
               /\ AuthorOrCreator(PropsOf(id),
                                  RowOf(PropsOf(id), calls'[Len(calls')].id))]_vars

\* a call made by the task's creator for a comment of another user, shown
\* next to a comment of the creator's own
C21_Witness ==
    \E id \in TaskIds :
        /\ Mounted(id)
        /\ currentUser.t = "obj"
        /\ InFlightFrom(id, "deleteComment")
        /\ calls[1].id = 1
        /\ DeleteButtons(PropsOf(id)) = {1, 2}
        /\ PropsOf(id).taskCreatorId = PropsOf(id).currentUserId
        /\ RowOf(PropsOf(id), 1).authorId # currentUser.v.id

\* what the calls in flight ask of the server
Requests(cs) ==
    [i \in DOMAIN cs |-> [fn |-> cs[i].fn, id |-> cs[i].id, arg |-> cs[i].arg]]

\* the step leaves the tasks, the calls made and the optimistic updates as
\* they are
NoMutation ==
    /\ Requests(calls') = Requests(calls)
    /\ UNCHANGED <<initialTasks, serverTasks, optimisticQueue, isPending>>
    /\ optimisticTasks' = optimisticTasks

\* C22: handleEditClick(taskId) sets the task's dialog flag to true and its
\* dropdown flag to false, handleCloseDialog(taskId) sets the task's dialog
\* flag to false and leaves the dropdown flags; both leave the flags of
\* every other task, the tasks, the optimistic updates and the calls in
\* flight as they are.  No step changes the flags of two tasks.
C22_LocalTransitions ==
    [][/\ \A id \in TaskIds :
            /\ handleEditClick(id)
               => /\ openDialogs' = [openDialogs EXCEPT ![id] = Bool(TRUE)]
                  /\ openDropdowns' = [openDropdowns EXCEPT ![id] = Bool(FALSE)]
                  /\ NoMutation
            /\ handleCloseDialog(id)
               => /\ openDialogs' = [openDialogs EXCEPT ![id] = Bool(FALSE)]
                  /\ openDropdowns' = openDropdowns
                  /\ NoMutation
       /\ openDialogs' # openDialogs \/ openDropdowns' # openDropdowns
          => /\ NoMutation
             /\ \E id \in TaskIds : \A other \in TaskIds \ {id} :
                   /\ openDialogs'[other] = openDialogs[other]
                   /\ openDropdowns'[other] = openDropdowns[other]]_vars

\* the first task's dialog was opened from its dropdown and the second
\* task's dialog was opened and closed again, its dropdown open, with a
\* call in flight
C22_Witness ==
    /\ openDialogs = <<Bool(TRUE), Bool(FALSE)>>
    /\ openDropdowns = <<Bool(FALSE), Bool(TRUE)>>
    /\ calls # <<>>
    /\ optimisticTasks # initialTasks

\* C23: the call of getCurrentUser made on mount is the only one: once it
\* has resolved or been rejected, no step of any operation makes it
\* pending again or changes the current user, and until it resolves the
\* current user is null.
C23_LoadedOnce ==
    /\ [](/\ userLoad \in {"pending", "resolved", "rejected"}
          /\ userLoad # "resolved" => currentUser = Null)
    /\ [][/\ userLoad # "pending" => UNCHANGED <<userLoad, currentUser>>
          /\ userLoad' # userLoad
             => UNCHANGED <<calls, optimisticQueue, openDialogs, newComment>>]_vars

\* the call was rejected, and rows were toggled and a dialog opened since
C23_Witness ==
    /\ userLoad = "rejected"
    /\ optimisticQueue # <<>>
    /\ Mounted(1)
    /\ currentUser = Null

AddCommentCalls == CountOf(calls, LAMBDA c : c.fn = "addComment")

\* C24: a call of addComment is made with the task id of the TaskComments
\* and the text of its Textarea as it is, white space at its ends
\* included, and only for a text that is not blank once trimmed.
C24_RawText ==
    [][AddCommentCalls' > AddCommentCalls
       => LET c == calls'[Len(calls')]
          IN  /\ c.fn = "addComment"
              /\ c.view \in TaskIds
              /\ Mounted(c.view)
              /\ c.id = PropsOf(c.view).taskId
              /\ c.arg = Str(newComment[c.view])
              /\ newComment'[c.view] = newComment[c.view]
              /\ trim(newComment[c.view]) # <<>>]_vars

C24_Witness ==
    /\ Len(calls) = 1
    /\ calls[1].fn = "addComment"
    /\ calls[1].id = 1
    /\ calls[1].arg = Str(<<" ", "a", " ">>)
    /\ newComment[1] = <<" ", "a", " ">>

\* the calls in flight made by the mounted TaskComments of the task
LiveCallsFrom(id) ==
    CountOf(calls, LAMBDA c : /\ c.fn \in {"addComment", "deleteComment"}
                              /\ c.view = id
                              /\ c.live)

\* C25: a mounted TaskComments has at most one call of addComment or
\* deleteComment in flight; while it has one, its Textarea, its Add
\* Comment button and its delete buttons are disabled; and a call is made
\* only from a TaskComments that has none in flight and is not pending.
C25_OneAtATime ==
    /\ [](\A id \in TaskIds :
            Mounted(id)
            => /\ LiveCallsFrom(id) <= 1
               /\ LiveCallsFrom(id) = 1
                  => TextareaDisabled(id) /\ AddDisabled(id) /\ DeleteDisabled(id))
    /\ [][\A id \in TaskIds :
            CommentCalls' > CommentCalls /\ calls'[Len(calls')].view = id
            => /\ LiveCallsFrom(id) = 0
               /\ ~commentPending[id]
               /\ LiveCallsFrom(id)' = 1]_vars

\* one call is in flight, there is room for another, and there is a text
\* to send and a comment to delete
C25_Witness ==
    \E id \in TaskIds :
        /\ Mounted(id)
        /\ LiveCallsFrom(id) = 1
        /\ Len(calls) = 1
        /\ Len(calls) < MaxCalls
        /\ ~IsBlank(newComment[id])
        /\ DeleteButtons(PropsOf(id)) # {}
        /\ AddDisabled(id)

\* C26: the status a toggle asks updateTaskStatus for is the status the
\* task has in the optimistic collection once the toggle's update is
\* applied, also when toggles of the task are already queued.
C26_SentIsShown ==
    [][\A id \in TaskIds :
          TogglesNow(id)
          => /\ id \in Ids(optimisticTasks)'
             /\ IsToggleOf(optimisticQueue'[Len(optimisticQueue')], id)
             /\ calls'[Len(calls')].arg = StatusIn(optimisticTasks, id)']_vars

\* a task confirmed in_progress toggled twice: done was asked for, then
\* todo, and todo is shown
C26_Witness ==
    \E id \in Ids(initialTasks) :
        /\ StatusIn(initialTasks, id) = "in_progress"
        /\ Len(calls) = 2
        /\ calls[1].id = id /\ calls[1].arg = "done"
        /\ calls[2].id = id /\ calls[2].arg = "todo"
        /\ StatusIn(optimisticTasks, id) = "todo"

\* C27: a toggle gives a task shown done the status todo and a task shown
\* todo or in_progress the status done; a task with a toggle queued is
\* never shown in_progress; and no call of updateTaskStatus asks for
\* in_progress.
C27_NeverInProgress ==
    /\ [](/\ \A id \in Ids(optimisticTasks) :
                QueuedToggles(id) > 0
                => StatusIn(optimisticTasks, id) \in {"todo", "done"}
          /\ \A i \in DOMAIN calls :
                calls[i].fn = "updateTaskStatus" => calls[i].arg \in {"todo", "done"})
    /\ [][\A id \in Ids(optimisticTasks) :
            QueuedToggles(id)' > QueuedToggles(id)
            => StatusIn(optimisticTasks, id)' =
                  IF StatusIn(optimisticTasks, id) = "done" THEN "todo" ELSE "done"]_vars

\* a task confirmed in_progress, toggled twice, the first call settled
C27_Witness ==
    \E id \in Ids(initialTasks) :
        /\ StatusIn(initialTasks, id) = "in_progress"
        /\ QueuedToggles(id) = 2
        /\ ToggleCalls(id) = 1
        /\ StatusIn(optimisticTasks, id) = "todo"

\* the ids of the tasks, in their order
IdsInOrder(tasks) == [i \in DOMAIN tasks |-> tasks[i].id]

\* C28: the optimistic collection holds tasks of the confirmed collection
\* only, none twice, in the order they have there, each of them equal to
\* its confirmed version but for its status.
C28_SubCollection ==
    /\ IsSubSeq(IdsInOrder(optimisticTasks), IdsInOrder(initialTasks))
    /\ Cardinality(Ids(optimisticTasks)) = Len(optimisticTasks)
    /\ \A i \in DOMAIN optimisticTasks :
          /\ optimisticTasks[i].id \in Ids(initialTasks)
          /\ [optimisticTasks[i] EXCEPT
                !.status = StatusIn(initialTasks, optimisticTasks[i].id)]
             = TaskOf(initialTasks, optimisticTasks[i].id)

\* the first task is deleted and the last one flipped
C28_Witness ==
    /\ Len(initialTasks) = MaxTasks
    /\ Len(optimisticTasks) = MaxTasks - 1
    /\ 1 \notin Ids(optimisticTasks)
    /\ Flipped(MaxTasks)
    /\ Len(optimisticQueue) = MaxQueue

\* the reducer applied for a task id
Reduce(state, action, id) == reducer(state, action, [id |-> id])

\* ids of tasks and one that no task has
SomeIds == 1 .. MaxTasks + 1

\* C29: on the confirmed and on the optimistic collection, a delete or a
\* toggle of an id the collection does not have changes nothing; a second
\* delete of an id changes nothing; delete then toggle and toggle then
\* delete of an id both equal its delete; and actions on two different ids
\* give the same collection in either order.
C29_ReducerAlgebra ==
    \A state \in {initialTasks, optimisticTasks} :
    \A a \in SomeIds :
        /\ a \notin Ids(state)
           => Reduce(state, "delete", a) = state /\ Reduce(state, "toggle", a) = state
        /\ Reduce(Reduce(state, "delete", a), "delete", a) = Reduce(state, "delete", a)
        /\ Reduce(Reduce(state, "delete", a), "toggle", a) = Reduce(state, "delete", a)
        /\ Reduce(Reduce(state, "toggle", a), "delete", a) = Reduce(state, "delete", a)
        /\ \A b \in SomeIds \ {a} :
           \A x, y \in {"delete", "toggle"} :
              Reduce(Reduce(state, x, a), y, b) = Reduce(Reduce(state, y, b), x, a)

\* a task was toggled and then deleted, and the collection is the one its
\* delete alone gives
C29_Witness ==
    /\ Len(initialTasks) = MaxTasks
    /\ optimisticQueue = <<[action |-> "toggle", task |-> [id |-> 1]],
                           [action |-> "delete", task |-> [id |-> 1]]>>
    /\ optimisticTasks = Reduce(initialTasks, "delete", 1)
    /\ Len(optimisticTasks) = MaxTasks - 1

\* C30: while there is no current user (the load pending, rejected, or
\* resolved to null), a mounted TaskComments renders neither the add form
\* nor a delete button, also for a task whose creator id is undefined, and
\* its controls cannot be used; a call of addComment or deleteComment is
\* only ever made with a current user.
C30_NoUserNoComments ==
    /\ [](\A id \in TaskIds :
            Mounted(id) /\ currentUser.t # "obj"
            => /\ ~AddFormRendered(PropsOf(id))
               /\ DeleteButtons(PropsOf(id)) = {}
               /\ \A j \in DOMAIN CommentRows(PropsOf(id)) :
                     ~Truthy(canDeleteComment(PropsOf(id), CommentRows(PropsOf(id))[j]))
               /\ ~ENABLED ClickAddComment(id)
               /\ ~ENABLED ClickDeleteComment(id)
               /\ \A text \in Texts : ~ENABLED onChange(id, text))
    /\ [][CommentCalls' > CommentCalls => currentUser.t = "obj"]_vars

\* the load has resolved to null, and the dialog of a task with a comment
\* and no creator id is open
C30_Witness ==
    \E id \in TaskIds :
        /\ Mounted(id)
        /\ userLoad = "resolved"
        /\ currentUser = Null
        /\ PropsOf(id).taskCreatorId = Undefined
        /\ PropsOf(id).currentUserId = Undefined
        /\ Len(CommentRows(PropsOf(id))) = 1

====
